---------------------------- MODULE Spec2Model ----------------------------
(***************************************************************************)
(* A model of the ASF infrastructure catalog service:                      *)
(*   - the entity model and the Collection store (concepts/collections.py) *)
(*   - the LDAP collector and its scan loop       (collectors/ldap.py)     *)
(*   - the lookup handler                         (renderers/lookup.py)    *)
(* Python strings are sequences of one-character strings, so that lower(), *)
(* removeprefix(), capitalize() and the uid regular expression are         *)
(* computed and not assumed.  Python lists and (insertion-ordered) dicts   *)
(* are sequences.                                                          *)
(***************************************************************************)
EXTENDS Integers, Sequences, FiniteSets, TLC

(***************************************************************************)
(* Bounds of the model.                                                    *)
(***************************************************************************)
\* most member/owner references in the answer to one project query
MaxRefs == 2
\* most entries in the answer to one people query
MaxPeople == 2
\* longest obj_list a client of the store hands to replace
MaxLen == 2

(***************************************************************************)
(* Python values and strings.                                              *)
(***************************************************************************)
None == <<"None">>

UpperCase == <<"A","B","C","D","E","F","G","H","I","J","K","L","M",
               "N","O","P","Q","R","S","T","U","V","W","X","Y","Z">>
LowerCase == <<"a","b","c","d","e","f","g","h","i","j","k","l","m",
               "n","o","p","q","r","s","t","u","v","w","x","y","z">>
\* the characters the model uses, in code point order
CodePoints == <<" ", ",", "-", ".", "/", ":", "<", "=", ">", "?", "@">> \o UpperCase \o LowerCase

Chars == {CodePoints[i] : i \in 1..Len(CodePoints)}

\* ord(c), as a rank among the characters of the model
OrdOf == [c \in Chars |-> CHOOSE i \in 1..Len(CodePoints) : CodePoints[i] = c]

Ord(c) == OrdOf[c]

LowerOf ==
    [c \in Chars |->
        IF \E i \in 1..Len(UpperCase) : UpperCase[i] = c
        THEN LowerCase[CHOOSE i \in 1..Len(UpperCase) : UpperCase[i] = c]
        ELSE c]

UpperOf ==
    [c \in Chars |->
        IF \E i \in 1..Len(LowerCase) : LowerCase[i] = c
        THEN UpperCase[CHOOSE i \in 1..Len(LowerCase) : LowerCase[i] = c]
        ELSE c]

LowerChar(c) == LowerOf[c]

UpperChar(c) == UpperOf[c]

\* str.lower()
Lower(s) == [i \in 1..Len(s) |-> LowerChar(s[i])]

\* str.capitalize(): first character upper case, the rest lower case
Capitalize(s) == [i \in 1..Len(s) |-> IF i = 1 THEN UpperChar(s[i]) ELSE LowerChar(s[i])]

StartsWith(s, p) == Len(s) >= Len(p) /\ SubSeq(s, 1, Len(p)) = p

\* str.removeprefix(p)
RemovePrefix(s, p) == IF StartsWith(s, p) THEN SubSeq(s, Len(p) + 1, Len(s)) ELSE s

\* str < str, by code points
StrLess(s, t) ==
    \E i \in 1..(Len(t)) :
        /\ i <= Len(s) + 1
        /\ \A j \in 1..(i - 1) : s[j] = t[j]
        /\ (i = Len(s) + 1 \/ Ord(s[i]) < Ord(t[i]))

RECURSIVE TakeUntilComma(_)
\* the longest prefix without a comma: what [^,]* matches
TakeUntilComma(s) ==
    IF s = <<>> \/ Head(s) = "," THEN <<>> ELSE <<Head(s)>> \o TakeUntilComma(Tail(s))

S_extended == <<"e","x","t","e","n","d","e","d">>
S_person == <<"p","e","r","s","o","n">>
S_project == <<"p","r","o","j","e","c","t">>
S_mailinglist == <<"m","a","i","l","i","n","g","l","i","s","t">>
S_widget == <<"w","i","d","g","e","t">>
S_Person == <<"P","e","r","s","o","n">>
S_Project == <<"P","r","o","j","e","c","t">>
S_ExtendedPerson == <<"E","x","t","e","n","d","e","d">> \o S_Person
S_MailingList == <<"M","a","i","l","i","n","g","L","i","s","t">>
S_ExtendedMailingList == <<"E","x","t","e","n","d","e","d">> \o S_MailingList

(***************************************************************************)
(* The entity model: the classes, their bases and their fields.            *)
(***************************************************************************)
Classes == {"CatalogObject", "BasePerson", "Person", "ExtendedPerson",
            "BaseMailingList", "MailingList", "ExtendedMailingList",
            "GitRepository", "SubversionRepository", "BaseProject", "Project"}

\* the base class of each class
BaseOf ==
    [c \in Classes |->
        CASE c = "BasePerson" -> "CatalogObject"
          [] c = "Person" -> "BasePerson"
          [] c = "ExtendedPerson" -> "Person"
          [] c = "BaseMailingList" -> "CatalogObject"
          [] c = "MailingList" -> "BaseMailingList"
          [] c = "ExtendedMailingList" -> "MailingList"
          [] c = "GitRepository" -> "CatalogObject"
          [] c = "SubversionRepository" -> "CatalogObject"
          [] c = "BaseProject" -> "CatalogObject"
          [] c = "Project" -> "BaseProject"
          [] OTHER -> "CatalogObject"]

\* the fields a class declares itself
OwnFields ==
    [c \in Classes |->
        CASE c = "CatalogObject" -> {"ref_url"}
          [] c = "BasePerson" -> {"id", "name"}
          [] c = "Person" -> {"primary_email", "projects"}
          [] c = "ExtendedPerson" -> {"account_created_ts", "alternate_emails"}
          [] c = "BaseMailingList" -> {"id"}
          [] c = "MailingList" -> {"project", "address", "list_id"}
          [] c = "ExtendedMailingList" -> {"moderators", "subscribers"}
          [] c = "GitRepository" -> {"id", "sourceURL", "mirrorURL", "project"}
          [] c = "SubversionRepository" -> {"id", "sourceURL", "project"}
          [] c = "BaseProject" -> {"id", "name", "website"}
          [] c = "Project" -> {"mailinglists", "chair", "committers",
                               "pmc_members", "repositories"}
          [] OTHER -> {}]

RECURSIVE Ancestors(_)
\* a class and all its bases
Ancestors(c) == IF c = "CatalogObject" THEN {c} ELSE {c} \cup Ancestors(BaseOf[c])

IsSubclass(c, d) == d \in Ancestors(c)

\* the fields of a class, inherited ones included
FieldsOf(c) == UNION {OwnFields[d] : d \in Ancestors(c)}

\* cls.__name__
ClassName ==
    [c \in Classes |->
        CASE c = "Person" -> S_Person
          [] c = "ExtendedPerson" -> S_ExtendedPerson
          [] c = "Project" -> S_Project
          [] c = "MailingList" -> S_MailingList
          [] c = "ExtendedMailingList" -> S_ExtendedMailingList
          [] OTHER -> <<"?">>]

ANY_CLASS == <<"ExtendedPerson", "Person", "BasePerson", "ExtendedMailingList",
               "MailingList", "GitRepository", "SubversionRepository",
               "Project", "BaseProject">>

ANY_PUBLIC_CLASS == <<"Person", "BasePerson", "MailingList", "GitRepository",
                      "SubversionRepository", "Project", "BaseProject">>

Hostname == <<"c","a","t","a","l","o","g","-","t","e","s","t",".","a","p","a","c","h","e",".","o","r","g">>

(***************************************************************************)
(* Collection: the catalog store.  _cache maps a slug to a bucket; a       *)
(* bucket is a Python dict (id -> object), kept here as the sequence of    *)
(* its values in insertion order.                                          *)
(***************************************************************************)
\* a class object handed where a type name is expected
ClassObject(c) == <<"<class>", c>>

IsClassObject(object_type) == Len(object_type) = 2 /\ object_type[1] = "<class>"

\* Collection.shorthand
shorthand(object_type) ==
    LET name == IF IsClassObject(object_type) THEN ClassName[object_type[2]]
                ELSE object_type
    IN  RemovePrefix(Lower(name), S_extended)

\* a bucket that keeps every object it is given
DictAppend(bucket, obj) == Append(bucket, obj)

\* d[obj.id] = obj on a dict kept as the sequence of its values
DictPut(bucket, obj) ==
    IF \E i \in 1..Len(bucket) : bucket[i].id = obj.id
    THEN [i \in 1..Len(bucket) |-> IF bucket[i].id = obj.id THEN obj ELSE bucket[i]]
    ELSE Append(bucket, obj)

RECURSIVE DictFrom(_, _)
\* {obj.id: obj for obj in obj_list}, added to the dict built so far
DictFrom(bucket, obj_list) ==
    IF obj_list = <<>> THEN bucket
    ELSE DictFrom(DictPut(bucket, Head(obj_list)), Tail(obj_list))

\* _cache[k] = bucket
CachePut(c, k, bucket) == [x \in (DOMAIN c) \cup {k} |-> IF x = k THEN bucket ELSE c[x]]

\* _cache.get(k, {})
CacheGet(c, k) == IF k \in DOMAIN c THEN c[k] ELSE <<>>

\* a replace that updates the bucket in place instead of installing a new dict
ReplaceInPlace(c, object_type, obj_list) ==
    CachePut(c, shorthand(object_type),
             DictFrom(CacheGet(c, shorthand(object_type)), obj_list))

\* Collection.replace
Replace(c, object_type, obj_list) ==
    CachePut(c, shorthand(object_type), DictFrom(<<>>, obj_list))

\* Collection.add
Add(c, object) ==
    LET oid == shorthand(ClassObject(object.cls))
    IN  CachePut(c, oid, DictPut(CacheGet(c, oid), object))

\* Collection.list: the tuple of the values of the bucket under the name as given
List(c, object_type) == CacheGet(c, object_type)

\* what a call gives back: a value, None, or an exception
Value(v) == [kind |-> "value", value |-> <<v>>, exc |-> "-"]
ReturnNone == [kind |-> "none", value |-> <<>>, exc |-> "-"]
Raise(e) == [kind |-> "raise", value |-> <<>>, exc |-> e]

\* the fields of the entity model that hold a str
StrFields == {"id", "name", "primary_email", "website", "address", "list_id"}

RECURSIVE MatchAll(_, _)
\* all(getattr(entry, k) == v for k, v in kwargs.items()): "true", "false", or
\* "raise" when getattr finds no such attribute before a comparison fails
MatchAll(entry, kwargs) ==
    IF kwargs = <<>> THEN "true"
    ELSE LET k == Head(kwargs)[1]
             v == Head(kwargs)[2]
         IN  IF k \notin FieldsOf(entry.cls) THEN "raise"
             ELSE IF k \in StrFields /\ entry[k] = v THEN MatchAll(entry, Tail(kwargs))
             ELSE "false"

RECURSIVE FirstMatch(_, _)
\* the scan of Collection.get
FirstMatch(entries, kwargs) ==
    IF entries = <<>> THEN ReturnNone
    ELSE LET m == MatchAll(Head(entries), kwargs)
         IN  IF m = "raise" THEN Raise("AttributeError")
             ELSE IF m = "true" THEN Value(Head(entries))
             ELSE FirstMatch(Tail(entries), kwargs)

\* kwargs == {"id": uid}
IsIdOnly(kwargs) == Len(kwargs) = 1 /\ kwargs[1][1] = "id"

\* dict.get(uid) on a bucket
BucketGet(bucket, uid) ==
    IF \E i \in 1..Len(bucket) : bucket[i].id = uid
    THEN Value(bucket[CHOOSE i \in 1..Len(bucket) : bucket[i].id = uid])
    ELSE ReturnNone

\* Collection.get
Get(c, object_type, kwargs) ==
    LET oid == shorthand(object_type)
    IN  IF IsIdOnly(kwargs)
        THEN IF oid \in DOMAIN c THEN BucketGet(c[oid], kwargs[1][2])
             ELSE Raise("KeyError")
        ELSE FirstMatch(CacheGet(c, oid), kwargs)

RECURSIVE AllMatches(_, _)
\* the entries get_all yields when it is consumed to its end; an exception ends it
AllMatches(entries, kwargs) ==
    IF entries = <<>> THEN [kind |-> "value", value |-> <<>>, exc |-> "-"]
    ELSE LET m == MatchAll(Head(entries), kwargs)
             rest == AllMatches(Tail(entries), kwargs)
         IN  IF m = "raise" THEN Raise("AttributeError")
             ELSE IF rest.kind = "raise" THEN
                  [kind |-> "raise",
                   value |-> IF m = "true" THEN <<Head(entries)>> ELSE <<>>,
                   exc |-> rest.exc]
             ELSE [rest EXCEPT !.value =
                      IF m = "true" THEN <<Head(entries)>> \o @ ELSE @]

\* Collection.get_all, consumed without interruption
GetAll(c, object_type, kwargs) == AllMatches(CacheGet(c, shorthand(object_type)), kwargs)

\* Collection.get_all is a generator function: the call runs none of its body and
\* gives a generator; each next() runs the body to its next yield, its end or an
\* exception.  The generator holds the iterator of the values of one dict: the
\* bucket it found at its first next() (live while that dict is still the bucket of
\* the cache, so that an add is seen through it), or a fresh empty dict.  used is
\* the size the iterator recorded, pos the place it has reached.  seen is history:
\* the states the bucket has had since the call.
NoGen ==
    [status |-> "-", object_type |-> <<>>, kwargs |-> <<>>, live |-> FALSE, dict |-> <<>>,
     used |-> 0, pos |-> 0, yielded |-> <<>>, exc |-> "-", seen |-> {}]

\* get_all(object_type, **kwargs): the generator, not started
NewGen(c, object_type, kwargs) ==
    [NoGen EXCEPT !.status = "created", !.object_type = object_type, !.kwargs = kwargs,
                  !.seen = {CacheGet(c, shorthand(object_type))}]

\* the dict the generator iterates
GenDict(g, c) == IF g.live THEN CacheGet(c, shorthand(g.object_type)) ELSE g.dict

RECURSIVE NextMatch(_, _, _)
\* the place of the first entry after pos that matches: 0 when there is none, -1
\* when getattr raises before one is found
NextMatch(d, pos, kwargs) ==
    IF pos >= Len(d) THEN 0
    ELSE LET m == MatchAll(d[pos + 1], kwargs)
         IN  IF m = "raise" THEN -1
             ELSE IF m = "true" THEN pos + 1
             ELSE NextMatch(d, pos + 1, kwargs)

\* the start of the body: self._cache.get(oid, {}).values() and its iterator
GenStart(g, c) ==
    LET oid == shorthand(g.object_type)
    IN  [g EXCEPT !.status = "running", !.live = oid \in DOMAIN c,
                  !.used = Len(CacheGet(c, oid))]

\* a generator that has ended holds no dict any more
GenEnd(g, status, e) ==
    [g EXCEPT !.status = status, !.exc = e, !.live = FALSE, !.dict = <<>>]

\* the body from where it stands to its next yield: the iterator raises
\* RuntimeError when its dict has changed size
GenResume(g, c) ==
    LET d == GenDict(g, c)
        at == NextMatch(d, g.pos, g.kwargs)
    IN  IF Len(d) # g.used THEN GenEnd(g, "raised", "RuntimeError")
        ELSE IF at = -1 THEN GenEnd(g, "raised", "AttributeError")
        ELSE IF at = 0 THEN GenEnd(g, "done", "-")
        ELSE [g EXCEPT !.yielded = Append(@, d[at]), !.pos = at]

\* next(generator)
GenNext(g, c) == GenResume(IF g.status = "created" THEN GenStart(g, c) ELSE g, c)

\* what a write of bucket oid (replace installs a new dict, add updates the dict in
\* place) does to a generator under way: after a replace it goes on with the dict
\* it holds, now no longer the bucket
GenAfterWrite(g, c, c_after, oid, is_replace) ==
    IF g.status \notin {"created", "running"} \/ shorthand(g.object_type) # oid THEN g
    ELSE [g EXCEPT !.seen = @ \cup {c_after[oid]},
                   !.live = IF is_replace THEN FALSE ELSE @,
                   !.dict = IF is_replace /\ g.live THEN c[oid] ELSE @]

(***************************************************************************)
(* Serialisation of the entity model.  An object reference held in a list  *)
(* (a person's projects, a project's committers) is kept as the id of the  *)
(* object; the base fields of the referenced object are functions of its   *)
(* id (DirectoryName, ProjectName, ProjectWebsite below).                  *)
(***************************************************************************)
\* cn of the directory entry of an account
DirectoryName(uid) == Capitalize(uid) \o <<" ">> \o <<"D","o","e">>

DirectoryEmail(uid) == uid \o <<"@">> \o <<"a","p","a","c","h","e",".","o","r","g">>

ProjectName(cn) == <<"A","p","a","c","h","e"," ">> \o Capitalize(cn)

ProjectWebsite(cn) ==
    <<"h","t","t","p","s",":","/","/">> \o cn
        \o <<".","a","p","a","c","h","e",".","o","r","g">>

\* CatalogObject.make_ref
make_ref(cls, id) ==
    <<"h","t","t","p","s",":","/","/">> \o Hostname \o <<"/","l","o","o","k","u","p","/">>
        \o RemovePrefix(Lower(ClassName[cls]), S_extended) \o <<"/">> \o id

\* a referenced Project dumped under the annotation BaseProject
DumpBaseProject(pid) ==
    [id |-> pid, name |-> ProjectName(pid), website |-> ProjectWebsite(pid),
     ref_url |-> make_ref("Project", pid)]

\* a referenced ExtendedPerson dumped under the annotation BasePerson
DumpBasePerson(uid) ==
    [id |-> uid, name |-> DirectoryName(uid), ref_url |-> make_ref("ExtendedPerson", uid)]

\* the dump of one field of an object
DumpField(entry, f) ==
    CASE f = "ref_url" -> make_ref(entry.cls, entry.id)
      [] f = "projects" -> [i \in 1..Len(entry.projects) |-> DumpBaseProject(entry.projects[i])]
      [] f \in {"committers", "pmc_members"} ->
            [i \in 1..Len(entry[f]) |-> DumpBasePerson(entry[f][i])]
      [] f = "chair" ->
            IF entry.chair = None THEN <<>> ELSE <<DumpBasePerson(entry.chair)>>
      [] f = "project" -> <<DumpBaseProject(entry.project)>>
      [] OTHER -> entry[f]

\* the dump of an object under the schema of class c: the fields of c and no others
DumpAs(entry, c) == [f \in FieldsOf(c) |-> DumpField(entry, f)]

\* the class a union annotation dumps an object as: the choice that is exactly the
\* object's class, else the first choice the object is an instance of
UnionChoice(cls, choices) ==
    IF \E i \in 1..Len(choices) : choices[i] = cls THEN cls
    ELSE IF \E i \in 1..Len(choices) : IsSubclass(cls, choices[i])
    THEN choices[CHOOSE i \in 1..Len(choices) :
                    /\ IsSubclass(cls, choices[i])
                    /\ \A j \in 1..(i - 1) : ~IsSubclass(cls, choices[j])]
    ELSE cls

\* a public result set that accepts every class
AnyClassOf(result_set) == ANY_CLASS

\* the annotation of the results of ResultSet and of PublicResultSet
ResultsAnnotation(result_set) ==
    IF result_set = "PublicResultSet" THEN ANY_PUBLIC_CLASS ELSE ANY_CLASS

\* result_set.model_dump_json(): the results, one dump per object
DumpResults(result_set, entries) ==
    [i \in 1..Len(entries) |->
        DumpAs(entries[i], UnionChoice(entries[i].cls, ResultsAnnotation(result_set)))]

(***************************************************************************)
(* lookup_public.  A request is the type of the URL, the uid of the URL    *)
(* (None when absent) and the form data, a sequence of <<key, value>>.     *)
(***************************************************************************)
HasKey(query, k) == \E i \in 1..Len(query) : query[i][1] = k

\* query.pop(k): the query without its key k
WithoutKey(query, k) == SelectSeq(query, LAMBDA kv : kv[1] # k)

\* query["id"] = uid
WithId(query, uid) == Append(WithoutKey(query, "id"), <<"id", uid>>)

\* the fields whose dump is a str
DumpStrFields == StrFields \cup {"ref_url"}

\* a filter that keeps every record
KeepAll(entry, query) == TRUE

\* all(entry.dict(include=query.keys()).get(k) == v for k, v in query.items())
DictMatches(entry, query) ==
    \A i \in 1..Len(query) :
        LET k == query[i][1]
            v == query[i][2]
        IN  /\ k \in FieldsOf(entry.cls)
            /\ k \in DumpStrFields
            /\ DumpField(entry, k) = v

NoResponse ==
    [status |-> 0, kind |-> "-", datatype |-> <<>>, query |-> <<>>, anonymous |-> FALSE,
     entries |-> <<>>, results |-> <<>>, no_results |-> 0]

\* lookup_public, from the form data to the response
lookup_public(c, type, uid, formdata) ==
    LET query0 == IF uid # None THEN WithId(formdata, uid) ELSE formdata
        datatype == Lower(type)
        anonymous_data_only == HasKey(query0, "anonymous")
        query == WithoutKey(query0, "anonymous")
        target == List(c, datatype)
        result_set == IF anonymous_data_only THEN "PublicResultSet" ELSE "ResultSet"
        entries == SelectSeq(target, LAMBDA entry : DictMatches(entry, query))
        seen == [NoResponse EXCEPT !.datatype = datatype, !.query = query,
                                   !.anonymous = anonymous_data_only]
    IN  IF Len(target) > 0
        THEN IF HasKey(query, "schema")
             THEN [seen EXCEPT !.status = 200, !.kind = "schema"]
             ELSE [seen EXCEPT !.status = 200, !.kind = "results",
                               !.entries = entries,
                               !.results = DumpResults(result_set, entries),
                               !.no_results = Len(entries)]
        ELSE [seen EXCEPT !.status = 400, !.kind = "No such object type"]

(***************************************************************************)
(* The directory (the source system).  An entry is an attribute map, from  *)
(* attribute names to lists of strings.  Entries of one search have        *)
(* distinct names (uid, cn): they are siblings of one directory subtree.   *)
(***************************************************************************)
Uids == {<<"a">>, <<"b">>}

Cns == {<<"f","o","o">>, <<"b","a","r">>}

\* the member/owner values that name an account: the bare uid and the DN
RefsTo(uid) == {uid, <<"u","i","d","=">> \o uid \o <<",","o","u","=","p","e","o","p","l","e">>}

\* the values of member: one account by its uid and by its DN, the other by its uid
MemberRefs == RefsTo(<<"a">>) \cup {<<"b">>}

\* the values of owner: the accounts by their uids
OwnerRefs == Uids

PersonEntry(uid) ==
    ("uid" :> <<uid>>) @@ ("cn" :> <<DirectoryName(uid)>>)
        @@ ("asf-committer-email" :> <<DirectoryEmail(uid)>>)

\* the entry of the subtree itself, which is no account and no project
OuEntry(ou) == ("ou" :> <<ou>>)

\* an account entry without its cn
NamelessEntry(uid) == ("uid" :> <<uid>>) @@ ("asf-committer-email" :> <<DirectoryEmail(uid)>>)

PeopleEntries ==
    {PersonEntry(uid) : uid \in Uids}
        \cup {OuEntry(<<"p","e","o","p","l","e">>), NamelessEntry(<<"m">>)}

\* the name an entry is known by in its subtree
EntryKey(e) == IF "uid" \in DOMAIN e THEN e["uid"][1] ELSE <<"?">>

\* the answers of the people query: up to MaxPeople entries, in directory order
PeopleAnswers ==
    {a \in UNION {[1..n -> PeopleEntries] : n \in 0..MaxPeople} :
        \A i \in 1..Len(a) : \A j \in 1..Len(a) :
            i < j => StrLess(EntryKey(a[i]), EntryKey(a[j]))}

RefSeqs(refs) == UNION {[1..n -> refs] : n \in 0..MaxRefs}

ProjectEntry(cn, member, owner) ==
    ("cn" :> <<cn>>)
        @@ (IF member = <<>> THEN <<>> ELSE ("member" :> member))
        @@ (IF owner = <<>> THEN <<>> ELSE ("owner" :> owner))

\* the references of an entry
RefCount(e) ==
    (IF "member" \in DOMAIN e THEN Len(e["member"]) ELSE 0)
        + (IF "owner" \in DOMAIN e THEN Len(e["owner"]) ELSE 0)

ProjectEntries(cn) ==
    {ProjectEntry(cn, m, o) : <<m, o>> \in
        {mo \in RefSeqs(MemberRefs) \X RefSeqs(OwnerRefs) :
            Len(mo[1]) + Len(mo[2]) <= MaxRefs}}

\* the answers of the project query, in directory order (the entry of the subtree,
\* then the projects, not sorted): the entries of some projects with MaxRefs
\* references in all
ProjectAnswers ==
    LET ou == OuEntry(<<"p","r","o","j","e","c","t">>)
        foo == <<"f","o","o">>
        bar == <<"b","a","r">>
        bare(cn) == ProjectEntry(cn, <<>>, <<>>)
        one == UNION {{<<e>> : e \in ProjectEntries(cn)} : cn \in Cns}
        two == {<<ef[1], ef[2]>> : ef \in
                   {ef \in ProjectEntries(foo) \X ProjectEntries(bar) :
                        RefCount(ef[1]) + RefCount(ef[2]) <= MaxRefs}}
    IN  {<<>>, <<ou>>, <<ou, bare(foo)>>, <<ou, bare(foo), bare(bar)>>,
         <<bare(bar), bare(foo)>>} \cup one \cup two

\* the readings of int(time.time())
Times == {1}

(***************************************************************************)
(* The collector (collectors/ldap.py).                                     *)
(***************************************************************************)
\* short_uid: LDAP_UID_RE = ^(?:uid=)?([^,]+).*$ and its group 1, else the uid itself
short_uid(uid) ==
    LET prefix == <<"u","i","d","=">>
        rest == RemovePrefix(uid, prefix)
    IN  IF StartsWith(uid, prefix) /\ TakeUntilComma(rest) # <<>>
        THEN TakeUntilComma(rest)
        ELSE IF TakeUntilComma(uid) # <<>> THEN TakeUntilComma(uid)
        ELSE uid

\* a person that is built with a project already in its list
NewPersonWithLinks(id, name, primary_email, account_created_ts) ==
    [cls |-> "ExtendedPerson", ref_url |-> None, id |-> id, name |-> name,
     primary_email |-> primary_email, projects |-> << <<"o","l","d">> >>,
     account_created_ts |-> account_created_ts, alternate_emails |-> None]

\* app.concepts.ExtendedPerson(id=, name=, primary_email=, account_created_ts=)
NewExtendedPerson(id, name, primary_email, account_created_ts) ==
    [cls |-> "ExtendedPerson", ref_url |-> None, id |-> id, name |-> name,
     primary_email |-> primary_email, projects |-> <<>>,
     account_created_ts |-> account_created_ts, alternate_emails |-> None]

\* app.concepts.Project(id=, name=, website=, chair=None)
NewProject(cn) ==
    [cls |-> "Project", ref_url |-> None, id |-> cn, name |-> ProjectName(cn),
     website |-> ProjectWebsite(cn), mailinglists |-> <<>>, chair |-> None,
     committers |-> <<>>, pmc_members |-> <<>>, repositories |-> <<>>]

\* str.replace("@", ".")
ReplaceAt(s) == [i \in 1..Len(s) |-> IF s[i] = "@" THEN "." ELSE s[i]]

\* app.concepts.ExtendedMailingList(id=, project=): address and list_id come from
\* their default factories
NewExtendedMailingList(id, project_id) ==
    [cls |-> "ExtendedMailingList", ref_url |-> None, id |-> id, project |-> project_id,
     address |-> id, list_id |-> <<"<">> \o ReplaceAt(id) \o <<">">>,
     moderators |-> None, subscribers |-> None]

RECURSIVE BuildPeople(_, _)
\* the loop of find_people: the people built, or the KeyError of an entry that has
\* a uid and lacks cn or asf-committer-email
BuildPeople(results, now) ==
    IF results = <<>> THEN [people |-> <<>>, exc |-> "-"]
    ELSE LET result == Head(results)
             rest == BuildPeople(Tail(results), now)
         IN  IF "uid" \notin DOMAIN result THEN rest
             ELSE IF "cn" \notin DOMAIN result
                     \/ "asf-committer-email" \notin DOMAIN result
             THEN [people |-> <<>>, exc |-> "KeyError"]
             ELSE IF rest.exc # "-" THEN rest
             ELSE [rest EXCEPT !.people =
                     <<NewExtendedPerson(result["uid"][1], result["cn"][1],
                                         result["asf-committer-email"][1], now)>> \o @]

\* key=lambda x: x.get("cn", ["??"])[0]
SortKey(result) == IF "cn" \in DOMAIN result THEN result["cn"][1] ELSE <<"?","?">>

RECURSIVE Sorted(_)
\* sorted(results, key=...): stable
Sorted(results) ==
    IF results = <<>> THEN <<>>
    ELSE LET rest == Sorted(Tail(results))
             before == SelectSeq(rest, LAMBDA r : StrLess(SortKey(r), SortKey(Head(results))))
             after == SelectSeq(rest, LAMBDA r : ~StrLess(SortKey(r), SortKey(Head(results))))
         IN  before \o <<Head(results)>> \o after

Contains(list, x) == \E i \in 1..Len(list) : list[i] = x

\* person.projects.append(project) without the test that it is not yet there
AppendProject(person, project_id) ==
    [person EXCEPT !.projects = Append(@, project_id)]

\* if project not in person.projects: person.projects.append(project)
LinkProject(person, project_id) ==
    IF Contains(person.projects, project_id) THEN person
    ELSE [person EXCEPT !.projects = Append(@, project_id)]

\* a link that leaves the person as it is
NoBackLink(c, person, project_id) == c

\* the person of the bucket, linked to the project in place
LinkInBucket(c, person, project_id) ==
    CachePut(c, S_person, DictPut(c[S_person], LinkProject(person, project_id)))

\* a chair that follows the owner list to its end
LastPerson(first_person, person) == person.id

\* if not first_person: first_person = person
FirstPerson(first_person, person) ==
    IF first_person = None THEN person.id ELSE first_person

\* one member (field "committers") or owner (field "pmc_members") reference of a
\* project: st is the cache, the project being built, first_person and the
\* exception that ended the pass ("-" when none has)
LinkReference(st, uid, field) ==
    LET asfid == short_uid(uid)
        got == Get(st.cache, S_person, << <<"id", asfid>> >>)
    IN  IF st.exc # "-" \/ asfid = <<>> THEN st
        ELSE IF got.kind = "raise" THEN [st EXCEPT !.exc = got.exc]
        ELSE IF got.kind = "none"
        THEN [st EXCEPT !.project[field] = Append(@, None), !.exc = "AttributeError"]
        ELSE LET person == got.value[1]
             IN  [st EXCEPT
                    !.project[field] = Append(@, person.id),
                    !.first_person =
                        IF field = "pmc_members" THEN FirstPerson(@, person) ELSE @,
                    !.cache = LinkInBucket(@, person, st.project.id)]

RECURSIVE LinkReferences(_, _, _)
\* for uid in result.get(..., [])
LinkReferences(st, uids, field) ==
    IF uids = <<>> THEN st
    ELSE LinkReferences(LinkReference(st, Head(uids), field), Tail(uids), field)

\* result.get(k, [])
GetList(result, k) == IF k \in DOMAIN result THEN result[k] ELSE <<>>

\* the body of the loop of find_projects for an entry that has a cn, up to its
\* asyncio.sleep: the cache and the list of projects after it, or the exception
BuildProject(c, projects, result) ==
    LET cn == result["cn"][1]
        st0 == [cache |-> c, project |-> NewProject(cn), first_person |-> None, exc |-> "-"]
        st1 == LinkReferences(st0, GetList(result, "member"), "committers")
        st2 == LinkReferences(st1, GetList(result, "owner"), "pmc_members")
        project == [st2.project EXCEPT !.chair = st2.first_person]
    IN  IF st2.exc # "-"
        THEN [cache |-> st2.cache, projects |-> projects, exc |-> st2.exc]
        ELSE [cache |-> Replace(st2.cache, S_project, Append(projects, project)),
              projects |-> Append(projects, project), exc |-> "-"]

RECURSIVE SkipNoCn(_)
\* the entries left once those without a cn at the head are passed over
SkipNoCn(results) ==
    IF results # <<>> /\ "cn" \notin DOMAIN Head(results) THEN SkipNoCn(Tail(results))
    ELSE results

(***************************************************************************)
(* The state.                                                              *)
(***************************************************************************)
VARIABLES
    cache,          \* Collection._cache: slug -> bucket
    pc,             \* where scan() is suspended, or "aborted"
    exc,            \* the exception that ended scan(), "-" while it runs
    results,        \* find_projects: the sorted entries not yet visited
    projects,       \* find_projects: the projects built so far in this pass
    response,       \* the response of the lookup being answered, or NoResponse
    returned,       \* what the store call of a client gave back, or NoCall
    pass_changed,   \* history: the pass under way has changed the store
    committed,      \* history: the ids of the projects of the final replace of
                    \* the last pass that completed
    last_replace,   \* history: the last replace a client made, or NoReplace
    gen,            \* the generator a get_all call gave its caller, or NoGen
    last_add,       \* history: the object a client added last, or NoAdd
    installed,      \* history: each bucket as the last replace or add left it
    answers         \* history: what the source answered in the pass under way

vars == <<cache, pc, exc, results, projects, response, returned,
          pass_changed, committed, last_replace, last_add, installed, answers, gen>>

scan_vars == <<pc, exc, results, projects, pass_changed, committed, answers>>

NoCall == [op |-> "-", object_type |-> <<>>, kwargs |-> <<>>,
           outcome |-> [kind |-> "-", value |-> <<>>, exc |-> "-"]]

NoReplace == [made |-> FALSE, object_type |-> <<>>, before |-> <<>>, obj_list |-> <<>>]

NoAdd == [made |-> FALSE, object |-> [cls |-> "-", id |-> <<>>]]

\* the bucket oid of the cache c, as a replace or an add has just left it
Install(inst, c, oid) == CachePut(inst, oid, c[oid])

NoAnswers ==
    [people_asked |-> FALSE, uids |-> {}, linked |-> {},
     projects_asked |-> FALSE, owners |-> {}, links |-> {}]

\* the accounts that have a project in the bucket find_people is about to replace
LinkedIn(bucket) == {bucket[i].id : i \in {i \in 1..Len(bucket) : bucket[i].projects # <<>>}}

\* the value names the account: it is the uid, or a DN that starts with uid=<uid>,
RefersTo(ref, uid) ==
    \/ ref = uid
    \/ StartsWith(ref, <<"u","i","d","=">> \o uid \o <<",">>)

\* the links of an answer of the project query: the cn of an entry and an account
\* one of its member or owner values names
LinksOf(answer) ==
    {<<answer[i]["cn"][1], uid>> : <<i, uid>> \in
        {iu \in {i \in 1..Len(answer) : "cn" \in DOMAIN answer[i]} \X Uids :
            \E ref \in {GetList(answer[iu[1]], "member")[k] :
                            k \in 1..Len(GetList(answer[iu[1]], "member"))}
                        \cup {GetList(answer[iu[1]], "owner")[k] :
                                 k \in 1..Len(GetList(answer[iu[1]], "owner"))} :
                RefersTo(ref, iu[2])}}

\* the accounts of an answer of the people query: the uids of the entries that have one
AccountsOf(answer) ==
    {answer[i]["uid"][1] : i \in {i \in 1..Len(answer) : "uid" \in DOMAIN answer[i]}}

\* the projects of an answer of the project query: the cn and the owner values of
\* the entries that have a cn
OwnersOf(answer) ==
    {<<answer[i]["cn"][1], GetList(answer[i], "owner")>> :
        i \in {i \in 1..Len(answer) : "cn" \in DOMAIN answer[i]}}

\* no handler and no client call is between its read of the store and its return
Quiet == response = NoResponse /\ returned = NoCall

\* a scan() that starts with find_projects
InitProjectsFirst ==
    /\ cache = <<>>
    /\ pc = "find_projects"
    /\ exc = "-"
    /\ results = <<>>
    /\ projects = <<>>
    /\ response = NoResponse
    /\ returned = NoCall
    /\ pass_changed = FALSE
    /\ committed = {}
    /\ last_replace = NoReplace
    /\ last_add = NoAdd
    /\ gen = NoGen
    /\ installed = <<>>
    /\ answers = NoAnswers

\* after Collection.__init__ and startup(): scan() runs and awaits its first query
Init ==
    /\ cache = <<>>
    /\ pc = "find_people"
    /\ exc = "-"
    /\ results = <<>>
    /\ projects = <<>>
    /\ response = NoResponse
    /\ returned = NoCall
    /\ pass_changed = FALSE
    /\ committed = {}
    /\ last_replace = NoReplace
    /\ last_add = NoAdd
    /\ gen = NoGen
    /\ installed = <<>>
    /\ answers = NoAnswers

(***************************************************************************)
(* scan(): one action per stretch of code between two suspensions.         *)
(***************************************************************************)
\* an exception leaves scan(): nothing catches it, the task ends and its frames
\* (results, projects) with it; no pass is under way any more
Abort(e) ==
    /\ pc' = "aborted"
    /\ exc' = e
    /\ results' = <<>>
    /\ projects' = <<>>
    /\ answers' = NoAnswers

\* find_people from the answer of its query to the query of find_projects
PeopleAnswer(answer, now) ==
    /\ Quiet
    /\ pc = "find_people"
    /\ LET built == BuildPeople(answer, now)
       IN  IF built.exc # "-"
           THEN /\ Abort(built.exc)
                /\ UNCHANGED cache
           ELSE /\ cache' = Replace(cache, S_person, built.people)
                /\ pc' = "find_projects"
                /\ answers' = [answers EXCEPT !.people_asked = TRUE,
                                               !.uids = AccountsOf(answer),
                                               !.linked = LinkedIn(CacheGet(cache, S_person))]
                /\ UNCHANGED <<exc, results, projects>>
    /\ pass_changed' = (pass_changed \/ cache' # cache)
    /\ installed' = IF BuildPeople(answer, now).exc # "-" THEN installed
                    ELSE Install(installed, cache', S_person)
    /\ UNCHANGED <<response, returned, committed, last_replace, last_add, gen>>

\* the people query fails
PeopleQueryFails ==
    /\ Quiet
    /\ pc = "find_people"
    /\ Abort("SourceSystemUnavailable")
    /\ UNCHANGED <<cache, response, returned, pass_changed, committed, last_replace, last_add, gen,
                   installed>>

\* the loop of find_projects from the entries left to its next suspension: the
\* sleep after a project, or the sleep of scan() after the final replace; asked is
\* what the source has answered in this pass
RunLoop(todo, built, asked) ==
    LET left == SkipNoCn(todo)
    IN  IF left = <<>>
        THEN /\ cache' = Replace(cache, S_project, built)
             /\ pc' = "scan_sleep"
             /\ exc' = exc
             /\ results' = <<>>
             /\ projects' = <<>>
             /\ answers' = asked
             /\ committed' = {built[i].id : i \in 1..Len(built)}
             /\ installed' = Install(installed, cache', S_project)
        ELSE LET step == BuildProject(cache, built, Head(left))
             IN  /\ cache' = step.cache
                 /\ committed' = committed
                 /\ installed' = IF step.exc # "-" THEN installed
                                 ELSE Install(installed, cache', S_project)
                 /\ IF step.exc # "-" THEN Abort(step.exc)
                    ELSE /\ pc' = "project_sleep"
                         /\ exc' = exc
                         /\ projects' = step.projects
                         /\ results' = Tail(left)
                         /\ answers' = asked

\* find_projects from the answer of its query to its first suspension
ProjectsAnswer(answer) ==
    /\ Quiet
    /\ pc = "find_projects"
    /\ RunLoop(Sorted(answer), <<>>,
               [answers EXCEPT !.projects_asked = TRUE, !.owners = OwnersOf(answer),
                               !.links = LinksOf(answer)])
    /\ pass_changed' = (pass_changed \/ cache' # cache)
    /\ UNCHANGED <<response, returned, last_replace, last_add, gen>>

\* the project query fails
ProjectsQueryFails ==
    /\ Quiet
    /\ pc = "find_projects"
    /\ Abort("SourceSystemUnavailable")
    /\ UNCHANGED <<cache, response, returned, pass_changed, committed, last_replace, last_add, gen,
                   installed>>

\* find_projects after asyncio.sleep(0.1)
ProjectSleepDone ==
    /\ Quiet
    /\ pc = "project_sleep"
    /\ RunLoop(results, projects, answers)
    /\ pass_changed' = (pass_changed \/ cache' # cache)
    /\ UNCHANGED <<response, returned, last_replace, last_add, gen>>

\* a timer that starts the next pass whether or not find_projects has finished
StartOnTimer ==
    /\ Quiet
    /\ pc \in {"project_sleep", "scan_sleep"}
    /\ pc' = "find_people"
    /\ pass_changed' = FALSE
    /\ answers' = NoAnswers
    /\ UNCHANGED <<cache, exc, results, projects, response, returned, committed,
                   last_replace, last_add, gen, installed>>

\* scan() after asyncio.sleep(3600): the next pass starts
ScanSleepDone ==
    /\ Quiet
    /\ pc = "scan_sleep"
    /\ pc' = "find_people"
    /\ pass_changed' = FALSE
    /\ answers' = NoAnswers
    /\ UNCHANGED <<cache, exc, results, projects, response, returned, committed,
                   last_replace, last_add, gen, installed>>

(***************************************************************************)
(* The readers: requests to /lookup.                                       *)
(***************************************************************************)
LookupRequests ==
    {rq \in [type : {S_Person, S_ExtendedPerson, S_project, S_mailinglist, S_widget},
             uid : {None, <<"a">>},
             formdata : {<<>>, << <<"anonymous", <<"1">> >> >>,
                         << <<"schema", <<"1">> >> >>,
                         << <<"name", DirectoryName(<<"b">>)>> >>,
                         << <<"nickname", <<"a">> >> >>}] :
        /\ rq.uid # None => rq.type = S_Person
        /\ HasKey(rq.formdata, "name") => rq.type = S_Person
        /\ HasKey(rq.formdata, "nickname") => (rq.type = S_Person /\ rq.uid = None)
        /\ HasKey(rq.formdata, "schema") => rq.type = S_project
        /\ rq.type \in {S_ExtendedPerson, S_widget} => rq.formdata = <<>>}

\* lookup_public from its read of the store to its return
Lookup(rq) ==
    /\ Quiet
    /\ response' = lookup_public(cache, rq.type, rq.uid, rq.formdata)
    /\ UNCHANGED <<cache, scan_vars, returned, last_replace, last_add, gen, installed>>

\* the response leaves the handler
Respond ==
    /\ response # NoResponse
    /\ response' = NoResponse
    /\ UNCHANGED <<cache, scan_vars, returned, last_replace, last_add, gen, installed>>

Next ==
    \/ \E answer \in PeopleAnswers, now \in Times : PeopleAnswer(answer, now)
    \/ PeopleQueryFails
    \/ \E answer \in ProjectAnswers : ProjectsAnswer(answer)
    \/ ProjectsQueryFails
    \/ ProjectSleepDone
    \/ ScanSleepDone
    \/ \E rq \in LookupRequests : Lookup(rq)
    \/ Respond

\* the service: the scan task and the lookup handlers on one event loop
Spec == Init /\ [][Next]_vars

(***************************************************************************)
(* The store under its clients: replace, add, list, get and get_all called *)
(* with any spelling of a type name, the collector idle.                   *)
(***************************************************************************)
PersonA == NewExtendedPerson(<<"a">>, DirectoryName(<<"a">>), DirectoryEmail(<<"a">>), 1)

\* the same account with another address and a project
PersonA2 == [PersonA EXCEPT !.primary_email = <<"a","@","x">>,
                            !.projects = << <<"f","o","o">> >>]

PersonB == NewExtendedPerson(<<"b">>, DirectoryName(<<"b">>), DirectoryEmail(<<"b">>), 2)

ListDev == [NewExtendedMailingList(<<"d","e","v","@","f","o","o">>, <<"f","o","o">>)
               EXCEPT !.moderators = << <<"a">> >>, !.subscribers = << <<"b">> >>]

ProjectFoo == [NewProject(<<"f","o","o">>) EXCEPT !.committers = << <<"a">> >>]

StoreObjects == {PersonA, PersonA2, PersonB, ListDev, ProjectFoo}

\* the objects a caller stores under a type name
ObjectsOf(object_type) ==
    {o \in StoreObjects : shorthand(ClassObject(o.cls)) = shorthand(object_type)}

ObjLists(object_type) == UNION {[1..n -> ObjectsOf(object_type)] : n \in 0..MaxLen}

WriteNames == {S_person, S_Person, S_ExtendedPerson, S_ExtendedMailingList}

ReadNames == {S_person, S_Person, S_ExtendedPerson, ClassObject("ExtendedPerson"),
              S_mailinglist, S_widget}

KwargsSet ==
    {<<>>,
     << <<"id", <<"a">> >> >>,
     << <<"id", <<"z">> >> >>,
     << <<"primary_email", <<"a","@","x">> >> >>,
     << <<"id", <<"b">> >>, <<"name", DirectoryName(<<"b">>)>> >>,
     << <<"nickname", <<"a">> >> >>}

ClientReplace(object_type, obj_list) ==
    /\ Quiet
    /\ cache' = Replace(cache, object_type, obj_list)
    /\ last_replace' = [made |-> TRUE, object_type |-> object_type,
                        before |-> CacheGet(cache, shorthand(object_type)),
                        obj_list |-> obj_list]
    /\ last_add' = NoAdd
    /\ gen' = GenAfterWrite(gen, cache, cache', shorthand(object_type), TRUE)
    /\ installed' = Install(installed, cache', shorthand(object_type))
    /\ UNCHANGED <<scan_vars, response, returned>>

ClientAdd(object) ==
    /\ Quiet
    /\ cache' = Add(cache, object)
    /\ last_replace' = NoReplace
    /\ last_add' = [made |-> TRUE, object |-> object]
    /\ gen' = GenAfterWrite(gen, cache, cache', shorthand(ClassObject(object.cls)), FALSE)
    /\ installed' = Install(installed, cache', shorthand(ClassObject(object.cls)))
    /\ UNCHANGED <<scan_vars, response, returned>>

ClientList(object_type) ==
    /\ Quiet
    /\ returned' = [op |-> "list", object_type |-> object_type, kwargs |-> <<>>,
                    outcome |-> [kind |-> "value", value |-> List(cache, object_type),
                                 exc |-> "-"]]
    /\ UNCHANGED <<cache, scan_vars, response, last_replace, last_add, gen, installed>>

ClientGet(object_type, kwargs) ==
    /\ Quiet
    /\ returned' = [op |-> "get", object_type |-> object_type, kwargs |-> kwargs,
                    outcome |-> Get(cache, object_type, kwargs)]
    /\ UNCHANGED <<cache, scan_vars, response, last_replace, last_add, gen, installed>>

ClientGetAll(object_type, kwargs) ==
    /\ Quiet
    /\ returned' = [op |-> "get_all", object_type |-> object_type, kwargs |-> kwargs,
                    outcome |-> GetAll(cache, object_type, kwargs)]
    /\ UNCHANGED <<cache, scan_vars, response, last_replace, last_add, gen, installed>>

\* the call returns to its caller
Return ==
    /\ returned # NoCall
    /\ returned' = NoCall
    /\ UNCHANGED <<cache, scan_vars, response, last_replace, last_add, gen, installed>>

StoreNext ==
    \/ \E object_type \in WriteNames :
          \E obj_list \in ObjLists(object_type) : ClientReplace(object_type, obj_list)
    \/ \E object \in StoreObjects : ClientAdd(object)
    \/ \E object_type \in ReadNames : ClientList(object_type)
    \/ \E object_type \in ReadNames, kwargs \in KwargsSet : ClientGet(object_type, kwargs)
    \/ \E object_type \in ReadNames, kwargs \in KwargsSet : ClientGetAll(object_type, kwargs)
    \/ Return
    \/ \E rq \in LookupRequests : Lookup(rq)
    \/ Respond

\* the store, its clients and the lookup handlers
StoreSpec == Init /\ [][StoreNext]_vars

(***************************************************************************)
(* The store under a consumer of get_all that takes the generator one      *)
(* next() at a time while other clients write the person bucket.           *)
(***************************************************************************)
IterNames == {S_person}

\* what the writers replace the person bucket with, and what they add to it
IterLists == {<<>>, <<PersonA>>, <<PersonA, PersonB>>, <<PersonA2, PersonB>>}

IterObjects == {PersonA2, PersonB}

IterKwargs == {<<>>, << <<"primary_email", DirectoryEmail(<<"a">>)>> >>}

\* get_all(object_type, **kwargs) returns its generator
IterCall(object_type, kwargs) ==
    /\ Quiet
    /\ gen = NoGen
    /\ gen' = NewGen(cache, object_type, kwargs)
    /\ UNCHANGED <<cache, scan_vars, response, returned, last_replace, last_add, installed>>

\* the consumer calls next() on the generator
IterNext ==
    /\ gen.status \in {"created", "running"}
    /\ gen' = GenNext(gen, cache)
    /\ UNCHANGED <<cache, scan_vars, response, returned, last_replace, last_add, installed>>

\* the consumer drops the generator that has ended
IterDrop ==
    /\ gen.status \in {"done", "raised"}
    /\ gen' = NoGen
    /\ UNCHANGED <<cache, scan_vars, response, returned, last_replace, last_add, installed>>

IterSteps ==
    \/ \E obj_list \in IterLists : ClientReplace(S_person, obj_list)
    \/ \E object \in IterObjects : ClientAdd(object)
    \/ \E object_type \in IterNames, kwargs \in IterKwargs : IterCall(object_type, kwargs)
    \/ IterNext
    \/ IterDrop

\* the store, the clients that write the person bucket and the consumer of get_all
IterSpec == Init /\ [][IterSteps]_vars

(***************************************************************************)
(* The claims.                                                             *)
(***************************************************************************)
IdsOf(list) == {list[i].id : i \in 1..Len(list)}

NoDuplicates(list) == \A i \in 1..Len(list) : \A j \in 1..Len(list) : list[i] = list[j] => i = j

\* the records replace(obj_list) is to install: of each id, the object written last
Installed(obj_list) ==
    {obj_list[i] : i \in {i \in 1..Len(obj_list) :
                            \A j \in (i + 1)..Len(obj_list) : obj_list[j].id # obj_list[i].id}}

\* C1: a list(T) that follows a replace(T, R), T the slug of the bucket, returns
\* either exactly the records the bucket held before the replace or exactly the
\* records of R (one per id), never a mix or a part of them.
C1_AtomicReplace ==
    (/\ returned.op = "list"
     /\ last_replace.made
     /\ returned.object_type = shorthand(last_replace.object_type))
    => LET got == returned.outcome.value
       IN  \/ got = last_replace.before
           \/ /\ {got[i] : i \in 1..Len(got)} = Installed(last_replace.obj_list)
              /\ Len(got) = Cardinality(Installed(last_replace.obj_list))

\* C1 witness: a list after a replace that put other records in a bucket that held some
C1_Witness ==
    /\ returned.op = "list"
    /\ last_replace.made
    /\ returned.object_type = shorthand(last_replace.object_type)
    /\ last_replace.before # <<>>
    /\ last_replace.obj_list # <<>>
    /\ returned.outcome.value # last_replace.before
    /\ IdsOf(returned.outcome.value) # IdsOf(last_replace.before)

\* C2: while find_projects is at work, a reader that lists the projects sees the
\* complete set of the last completed pass or the complete set of this pass.
C2_NoPartialRebuild ==
    (/\ pc = "project_sleep"
     /\ response.kind = "results"
     /\ response.datatype = S_project
     /\ response.query = <<>>)
    => \/ IdsOf(response.entries) = committed
       \/ IdsOf(response.entries) =
             IdsOf(projects) \cup {r["cn"][1] : r \in {results[i] : i \in
                                      {i \in 1..Len(results) : "cn" \in DOMAIN results[i]}}}

\* the public tier of a class
PublicTier(cls) ==
    CASE cls = "ExtendedPerson" -> "Person"
      [] cls = "ExtendedMailingList" -> "MailingList"
      [] OTHER -> cls

ExtendedOnly == {"account_created_ts", "alternate_emails", "moderators", "subscribers"}

\* the fields that hold references, dumped as the base records of what they name
ReferenceFields == {"projects", "committers", "pmc_members", "chair", "project"}

\* the ids a reference field of a stored record names
NamedBy(entry, f) ==
    IF f = "chair" THEN (IF entry.chair = None THEN <<>> ELSE <<entry.chair>>)
    ELSE IF f = "project" THEN <<entry.project>>
    ELSE entry[f]

\* the entity r of an envelope is the stored record E cut to the fields of tier
IsProjection(r, E, tier) ==
    /\ DOMAIN r = FieldsOf(tier)
    /\ \A f \in FieldsOf(tier) \ (ReferenceFields \cup {"ref_url"}) : r[f] = E[f]
    /\ \A f \in FieldsOf(tier) \cap ReferenceFields :
          /\ Len(r[f]) = Len(NamedBy(E, f))
          /\ \A i \in 1..Len(r[f]) : r[f][i].id = NamedBy(E, f)[i]

\* C3: at public visibility every entity of the envelope is the stored record cut
\* to exactly the fields of its public tier, values unchanged and no Extended-only
\* field present; at full visibility it has all the fields of its class, the
\* Extended ones included.
C3_Downgrade ==
    response.kind = "results" =>
        /\ Len(response.results) = Len(response.entries)
        /\ \A i \in 1..Len(response.entries) :
              LET E == response.entries[i]
                  r == response.results[i]
              IN  IF response.anonymous
                  THEN /\ IsProjection(r, E, PublicTier(E.cls))
                       /\ DOMAIN r \cap ExtendedOnly = {}
                  ELSE /\ IsProjection(r, E, E.cls)
                       /\ FieldsOf(E.cls) \cap ExtendedOnly \subseteq DOMAIN r

\* C3 witness: a public envelope that holds a record stored as ExtendedMailingList
C3_Witness ==
    /\ response.kind = "results"
    /\ response.anonymous
    /\ \E i \in 1..Len(response.entries) :
          /\ response.entries[i].cls = "ExtendedMailingList"
          /\ response.entries[i].moderators # None

\* C4: a pass ended by a failing source query has changed no bucket of the store.
C4_FailedPassCommitsNothing ==
    (pc = "aborted" /\ exc = "SourceSystemUnavailable") => ~pass_changed

\* C5: no error of a pass ends the scan loop.
C5_LoopNeverAborted == pc # "aborted"

\* C6: a reference to an account the person bucket does not hold is skipped: it
\* does not end the pass and puts no null entry in a list.
C6_UnresolvedSkipped ==
    /\ ~(pc = "aborted" /\ exc = "AttributeError")
    /\ \A i \in 1..Len(CacheGet(cache, S_project)) :
          /\ ~Contains(cache[S_project][i].committers, None)
          /\ ~Contains(cache[S_project][i].pmc_members, None)

\* C7: lookup answers "no such object type" exactly when the store has no bucket
\* for the type; an existing bucket, empty or not, gets an envelope.
C7_UnknownTypeOnly ==
    response # NoResponse =>
        (response.status = 400 <=> response.datatype \notin DOMAIN cache)

\* C8: list, get and get_all give the same under every spelling of a type name.
C8_SpellingsAgree ==
    \A t1 \in ReadNames : \A t2 \in ReadNames :
        shorthand(t1) = shorthand(t2) =>
            /\ List(cache, t1) = List(cache, t2)
            /\ \A kwargs \in KwargsSet :
                  /\ Get(cache, t1, kwargs) = Get(cache, t2, kwargs)
                  /\ GetAll(cache, t1, kwargs) = GetAll(cache, t2, kwargs)

\* a person is named by a project
Names(project, person) ==
    Contains(project.committers, person.id) \/ Contains(project.pmc_members, person.id)

\* C9: after a completed pass a project names a person exactly when the person's
\* projects hold the project.
C9_MutualReferences ==
    pc = "scan_sleep" =>
        \A i \in 1..Len(CacheGet(cache, S_person)) :
            \A j \in 1..Len(CacheGet(cache, S_project)) :
                Names(cache[S_project][j], cache[S_person][i])
                    <=> Contains(cache[S_person][i].projects, cache[S_project][j].id)

\* C9 witness: after a completed pass, a person of two projects, one of which
\* names someone else only
C9_Witness ==
    /\ pc = "scan_sleep"
    /\ \E i \in 1..Len(CacheGet(cache, S_person)) :
          /\ Len(cache[S_person][i].projects) = 1
          /\ \E j \in 1..Len(CacheGet(cache, S_project)) :
                /\ Names(cache[S_project][j], cache[S_person][i])
                /\ \E k \in 1..Len(cache[S_project]) :
                      /\ k # j
                      /\ ~Names(cache[S_project][k], cache[S_person][i])
                      /\ cache[S_project][k].committers # <<>>

\* C10: after a completed pass no list of references holds an entry twice.
C10_NoDuplicateReferences ==
    pc = "scan_sleep" =>
        /\ \A i \in 1..Len(CacheGet(cache, S_person)) :
              NoDuplicates(cache[S_person][i].projects)
        /\ \A j \in 1..Len(CacheGet(cache, S_project)) :
              /\ NoDuplicates(cache[S_project][j].committers)
              /\ NoDuplicates(cache[S_project][j].pmc_members)

\* the owner values of the entry of project cn in the answer of the pass under way
OwnerList(cn) == (CHOOSE e \in answers.owners : e[1] = cn)[2]

\* C11: the chair of every project a pass has committed is the account its first
\* owner value names, whatever the members and the order of the entries; a project
\* without owner values has no chair.
C11_ChairIsFirstOwner ==
    (answers.projects_asked /\ pc \in {"project_sleep", "scan_sleep"}) =>
        \A j \in 1..Len(CacheGet(cache, S_project)) :
            LET project == cache[S_project][j]
                owner == OwnerList(project.id)
            IN  project.chair = IF owner = <<>> THEN None ELSE short_uid(owner[1])

\* C11 witness: a committed project whose owners are b then a, chaired by b, next
\* to a project without owners and without chair
C11_Witness ==
    /\ pc = "scan_sleep"
    /\ \E j \in 1..Len(CacheGet(cache, S_project)) :
          /\ cache[S_project][j].pmc_members = << <<"b">>, <<"a">> >>
          /\ cache[S_project][j].chair = <<"b">>
          /\ OwnerList(cache[S_project][j].id) = << <<"b">>, <<"a">> >>
    /\ \E j \in 1..Len(CacheGet(cache, S_project)) :
          /\ cache[S_project][j].pmc_members = <<>>
          /\ cache[S_project][j].chair = None

\* C12: find_people of a pass starts only from the sleep of scan(), that is after
\* find_projects of the pass before has made its final replace and left; no pass
\* starts while another is under way.
C12_OnePassAtATime ==
    [][/\ (pc' = "find_people" /\ pc # "find_people") => pc = "scan_sleep"
       /\ pc = "scan_sleep" => (results = <<>> /\ projects = <<>>)
       /\ cache' # cache => pc \in {"find_people", "find_projects", "project_sleep"}]_vars

\* C12 witness: a pass is building projects after an earlier pass has completed
C12_Witness ==
    /\ pc = "project_sleep"
    /\ results # <<>>
    /\ committed # {}

\* the project bucket is written in this step
ProjectBucketWritten ==
    \/ CacheGet(cache', S_project) # CacheGet(cache, S_project)
    \/ (S_project \in DOMAIN cache') # (S_project \in DOMAIN cache)

\* C13: every step of find_projects (its person lookups and its replaces of the
\* project bucket) comes after the replace of the person bucket of the same pass:
\* the person bucket then holds exactly the accounts the people query of this pass
\* answered, and nothing else writes the project bucket.
C13_PersonBeforeProject ==
    [][(pc \in {"find_projects", "project_sleep"} \/ ProjectBucketWritten) =>
          /\ pc \in {"find_projects", "project_sleep"}
          /\ answers.people_asked
          /\ S_person \in DOMAIN cache
          /\ IdsOf(cache[S_person]) = answers.uids]_vars

\* C13 witness: in a pass after the first, a project holds a committer resolved
\* against the accounts this pass was answered
C13_Witness ==
    /\ pc = "project_sleep"
    /\ committed # {}
    /\ answers.uids = {<<"b">>}
    /\ \E j \in 1..Len(CacheGet(cache, S_project)) :
          cache[S_project][j].committers = << <<"b">> >>

\* C14: an entry that lacks a key attribute does not end the pass, and a completed
\* pass has committed one person per account entry and one project per entry with
\* a cn of its answers.
C14_MalformedSkipped ==
    /\ ~(pc = "aborted" /\ exc = "KeyError")
    /\ pc = "scan_sleep" =>
          /\ IdsOf(CacheGet(cache, S_person)) = answers.uids
          /\ IdsOf(CacheGet(cache, S_project)) = {e[1] : e \in answers.owners}

\* C15: get(typeName, id=uid) gives the record of that id when the bucket of
\* typeName holds one and None otherwise, the bucket missing included; it never
\* raises.
C15_GetNotFound ==
    (returned.op = "get" /\ IsIdOnly(returned.kwargs)) =>
        LET bucket == CacheGet(cache, shorthand(returned.object_type))
            uid == returned.kwargs[1][2]
        IN  IF \E i \in 1..Len(bucket) : bucket[i].id = uid
            THEN /\ returned.outcome.kind = "value"
                 /\ Contains(bucket, returned.outcome.value[1])
                 /\ returned.outcome.value[1].id = uid
            ELSE returned.outcome = ReturnNone

\* the record has no field of a name the constraints give
HasUnknownField(entry, kwargs) ==
    \E i \in 1..Len(kwargs) : kwargs[i][1] \notin FieldsOf(entry.cls)

\* C16: get and get_all with a constraint on a field no record of the bucket has
\* match nothing: get gives None and get_all yields nothing, without raising.
C16_UnknownFieldNeverMatches ==
    (/\ returned.op \in {"get", "get_all"}
     /\ ~IsIdOnly(returned.kwargs)
     /\ LET bucket == CacheGet(cache, shorthand(returned.object_type))
        IN  \A i \in 1..Len(bucket) : HasUnknownField(bucket[i], returned.kwargs))
    => IF returned.op = "get" THEN returned.outcome = ReturnNone
       ELSE returned.outcome = [kind |-> "value", value |-> <<>>, exc |-> "-"]

\* C17: every record of every bucket has, field by field, the value it had when
\* the last replace or add of its bucket left it there.
C17_NoInPlaceMutation ==
    /\ DOMAIN cache = DOMAIN installed
    /\ \A oid \in DOMAIN cache :
          /\ Len(cache[oid]) = Len(installed[oid])
          /\ \A i \in 1..Len(cache[oid]) :
                \A f \in FieldsOf(cache[oid][i].cls) :
                    cache[oid][i][f] = installed[oid][i][f]

\* the places of the records of id uid in a bucket
PlacesOf(bucket, uid) == {i \in 1..Len(bucket) : bucket[i].id = uid}

\* C18: a bucket never holds two records of one id; after replace(T, R) the bucket
\* holds, for each id of R, the one record of R written last, and after add(o) it
\* holds o as its one record of the id of o.
C18_IdUnique ==
    /\ \A oid \in DOMAIN cache :
          \A i \in 1..Len(cache[oid]) : PlacesOf(cache[oid], cache[oid][i].id) = {i}
    /\ last_replace.made =>
          LET bucket == cache[shorthand(last_replace.object_type)]
              R == last_replace.obj_list
          IN  \A k \in 1..Len(R) :
                 /\ Cardinality(PlacesOf(bucket, R[k].id)) = 1
                 /\ \A i \in PlacesOf(bucket, R[k].id) :
                       bucket[i] = R[CHOOSE m \in PlacesOf(R, R[k].id) :
                                        \A n \in PlacesOf(R, R[k].id) : n <= m]
    /\ last_add.made =>
          LET bucket == cache[shorthand(ClassObject(last_add.object.cls))]
          IN  /\ Cardinality(PlacesOf(bucket, last_add.object.id)) = 1
              /\ \A i \in PlacesOf(bucket, last_add.object.id) : bucket[i] = last_add.object

\* C18 witness: an add has overwritten the record of its id in a bucket of two
C18_Witness ==
    /\ last_add.made
    /\ last_add.object = PersonA2
    /\ cache[S_person] = <<PersonA2, PersonB>>

\* the record has, for every constraint, a field of that name with that value
Satisfies(entry, query) ==
    \A i \in 1..Len(query) :
        /\ query[i][1] \in FieldsOf(entry.cls)
        /\ DumpField(entry, query[i][1]) = query[i][2]

\* the n-th place, in increasing order, of a set of places
NthOf(places, n) == CHOOSE i \in places : Cardinality({j \in places : j <= i}) = n

\* C20: the results of an envelope are the records of list(typeName) that satisfy
\* every constraint, each once and in the order of list, and no_results is their
\* number.
C20_LookupResults ==
    response.kind = "results" =>
        LET target == List(cache, response.datatype)
            keep == {i \in 1..Len(target) : Satisfies(target[i], response.query)}
        IN  /\ Len(response.entries) = Cardinality(keep)
            /\ \A n \in 1..Len(response.entries) :
                  response.entries[n] = target[NthOf(keep, n)]
            /\ Len(response.results) = Len(response.entries)
            /\ \A n \in 1..Len(response.results) :
                  response.results[n].id = response.entries[n].id
            /\ response.no_results = Len(response.results)

\* C20 witness: a filter that keeps the second of two records
C20_Witness ==
    /\ response.kind = "results"
    /\ response.query # <<>>
    /\ Len(List(cache, response.datatype)) = 2
    /\ response.no_results = 1
    /\ response.entries = <<List(cache, response.datatype)[2]>>

\* C19: a get_all taken one next() at a time while the bucket is written ends
\* without an exception, and what it has yielded is the matching records, in
\* order, of one of the states the bucket has had since the call.
C19_GetAllSnapshot ==
    /\ gen.status # "raised"
    /\ gen.status = "done" =>
          \E bucket \in gen.seen :
              gen.yielded = SelectSeq(bucket, LAMBDA e : MatchAll(e, gen.kwargs) = "true")

\* C21: after a completed pass the projects of every person of the bucket are,
\* each once, exactly the projects whose entry in the answer of this pass names the
\* person as member or owner: what an earlier pass linked and this answer no longer
\* names is not there.
C21_LinksOfThisPass ==
    pc = "scan_sleep" =>
        \A i \in 1..Len(CacheGet(cache, S_person)) :
            LET person == cache[S_person][i]
            IN  /\ {person.projects[k] : k \in 1..Len(person.projects)}
                      = {l[1] : l \in {l \in answers.links : l[2] = person.id}}
                /\ NoDuplicates(person.projects)

\* C21 witness: after a completed pass, a person who had a project when the pass
\* began has none, next to a person who has one
C21_Witness ==
    /\ pc = "scan_sleep"
    /\ \E i \in 1..Len(CacheGet(cache, S_person)) :
          /\ cache[S_person][i].id \in answers.linked
          /\ cache[S_person][i].projects = <<>>
    /\ \E i \in 1..Len(CacheGet(cache, S_person)) :
          cache[S_person][i].projects # <<>>

====
